---- MODULE Spec2Model ----
(***************************************************************************)
(* Retrieval, attention and diversity functions of the claude_flow schema  *)
(* (docs/ruvector-postgres/examples/similarity-search.sql and              *)
(* attention-ops.sql) over the table claude_flow.embeddings.               *)
(*                                                                         *)
(* Numbers.  Embeddings are vectors with entries +1/-1, so every vector    *)
(* has the same norm and the cosine similarity of two vectors is their dot *)
(* product divided by the dimension.  A FLOAT similarity s is held as the  *)
(* integer s * SimScale.  EXP is held exactly as a power of ExpBase, where *)
(* ExpBase stands for e^(1 / (SimScale * TempScale)): EXP(s / t) is        *)
(* ExpBase^(s * TempScale / t), scaled by the constant ExpBase^ExpOffset   *)
(* so that it is an integer.  Softmax weights are quotients of two such    *)
(* numbers, so the scale cancels; a weight is held as the pair <<n, d>>.   *)
(* An ORDER BY leaves the order of rows with equal keys open: every order  *)
(* the sort may produce is an outcome of the call.                         *)
(*                                                                         *)
(* The module also holds the persisted store of the performance tools      *)
(* (performance/report and performance/benchmark) and the migration loop   *)
(* of docs/ruvector-postgres/scripts/run-migrations.sh.                    *)
(***************************************************************************)
EXTENDS Integers, Sequences, FiniteSets, TLC

VARIABLES embeddings, now, call, store, report_calls, script

vars == <<embeddings, now, call, store, report_calls, script>>

----------------------------------------------------------------------------
(* Bounds of the model *)

MaxDocs == 4

MaxTimedDocs == 3

MaxTaggedDocs == 3

MaxLimit == 3

MaxKeyedDocs == 3

MaxTextDocs == 2

(* the latest time the clock reaches without an insertion *)
MaxClock == 4

(* performance/report calls: more than the history keeps *)
MaxReports == 102

(* stored benchmark records after which no further benchmark is started *)
MaxBenchmarks == 2

(* migration files in the directory *)
MaxMigrations == 3

----------------------------------------------------------------------------
(* Values *)

NULL == "NULL"

NullVec == <<>>

V1 == <<1, 1, 1, 1, 1, 1>>

V2 == <<1, 1, 1, 1, 1, -1>>

V3 == <<1, 1, 1, 1, -1, -1>>

V4 == <<-1, -1, -1, -1, -1, -1>>

(* orthogonal to V1: cosine similarity 0 *)
V5 == <<1, 1, 1, -1, -1, -1>>

Vectors == {V1, V2, V3}

QueryVectors == {V1, V2, V4}

Dim == Len(V1)

SimScale == Dim

Limits == 0..MaxLimit

(* the base of EXP: one step of the exponent multiplies by ExpBase *)
ExpBase == 2

Min(a, b) == IF a <= b THEN a ELSE b

Max(a, b) == IF a >= b THEN a ELSE b

RECURSIVE Dot(_, _)
Dot(a, b) ==
    IF Len(a) = 0 THEN 0
    ELSE Head(a) * Head(b) + Dot(Tail(a), Tail(b))

(* a <=> b : cosine distance, 1 - cos(a, b) *)
CosineDistance(a, b) == SimScale - (Dot(a, b) * SimScale) \div Dim

(* 1 - (a <=> b) *)
Similarity(a, b) == SimScale - CosineDistance(a, b)

(* JSONB objects are sets of <<key, value>> pairs *)
MetaAX == {<<"category", "a">>, <<"agent", "x">>}

MetaBX == {<<"category", "b">>, <<"agent", "x">>}

MetaA == {<<"category", "a">>}

Metadatas == {MetaAX, MetaBX, MetaA}

(* content: a text of one word *)
Contents == {"alpha", "beta"}

(* metadata->>key : the text of the key, NULL when the object has no such key *)
JsonText(m, key) ==
    IF \E p \in m : p[1] = key
    THEN (CHOOSE p \in m : p[1] = key)[2]
    ELSE NULL

(* m @> f *)
JsonContains(m, f) == f \subseteq m

----------------------------------------------------------------------------
(* Rows and orderings *)

Table == {embeddings[i] : i \in 1..Len(embeddings)}

WithVector == {e \in Table : e.embedding # NullVec}

Range(s) == {s[i] : i \in 1..Len(s)}

(* A weight or an average is a quotient <<n, d>> with d > 0 *)
FracLE(a, b) ==
    IF a[2] = b[2] THEN a[1] <= b[1] ELSE a[1] * b[2] <= b[1] * a[2]

FracEq(a, b) == FracLE(a, b) /\ FracLE(b, a)

(* ORDER BY keys: a key is a sequence of quotients, compared left to right *)
Asc(n) == <<n, 1>>

Desc(n) == <<-n, 1>>

DescFrac(w) == <<-w[1], w[2]>>

RECURSIVE KeyLE(_, _)
KeyLE(k1, k2) ==
    IF Len(k1) = 0 THEN TRUE
    ELSE IF ~FracLE(Head(k1), Head(k2)) THEN FALSE
    ELSE IF ~FracLE(Head(k2), Head(k1)) THEN TRUE
    ELSE KeyLE(Tail(k1), Tail(k2))

(* ORDER BY over a set K of <<key, row>> pairs: every sequence that lists  *)
(* the rows once, in an order of never decreasing key.  Rows with equal    *)
(* keys come in any order.                                                 *)
RECURSIVE OrderBy(_)
OrderBy(K) ==
    IF K = {} THEN {<<>>}
    ELSE UNION { { <<m[2]>> \o t : t \in OrderBy(K \ {m}) } :
                 m \in {x \in K : \A y \in K : KeyLE(x[1], y[1])} }

(* ORDER BY over K as the sequence of its peer groups: the rows of equal   *)
(* key form one group, whose rows the sort may return in any order         *)
RECURSIVE Peers(_)
Peers(K) ==
    IF K = {} THEN <<>>
    ELSE LET first == {x \in K : \A y \in K : KeyLE(x[1], y[1])}
         IN  <<{x[2] : x \in first}>> \o Peers(K \ first)

(* SUM over a set P of <<row, value>> pairs *)
RECURSIVE SumValues(_)
SumValues(P) ==
    IF P = {} THEN 0
    ELSE LET p == CHOOSE x \in P : TRUE
         IN  p[2] + SumValues(P \ {p})

(* LIMIT k *)
Limit(s, k) == SubSeq(s, 1, Min(k, Len(s)))

----------------------------------------------------------------------------
(* The table: rows are inserted by the ingestion collaborator, one at a    *)
(* time, with a creation time that never decreases                         *)

Idle == [op |-> "idle"]

(* loadPerfStore() when no file has been written yet *)
EmptyStore == [metrics |-> <<>>, benchmarks |-> {}]

(* run-migrations.sh before it is started *)
NotStarted ==
    [pc |-> "start", files |-> <<>>, ran |-> <<>>, outcomes |-> <<>>,
     pipestatus |-> NULL, exit |-> NULL, all_complete |-> FALSE]

Init ==
    /\ embeddings = <<>>
    /\ now = 1
    /\ call = Idle
    /\ store = EmptyStore
    /\ report_calls = 0
    /\ script = NotStarted

(* the SQL functions and the ingestion touch neither the performance store *)
(* nor the migration script                                                *)
Elsewhere == UNCHANGED <<store, report_calls, script>>

Insert(v, t, m, c) ==
    /\ call = Idle
    /\ embeddings' = Append(embeddings,
          [id |-> Len(embeddings) + 1, content |-> c, embedding |-> v,
           created_at |-> t, metadata |-> m])
    /\ now' = t
    /\ UNCHANGED call
    /\ Elsewhere

(* documents that differ in their vector only *)
IngestVec ==
    /\ Len(embeddings) < MaxDocs
    /\ \E v \in Vectors \cup {NullVec} : Insert(v, now + 1, MetaAX, "alpha")

(* documents that differ in vector and creation time (times may collide) *)
IngestTimed ==
    /\ Len(embeddings) < MaxTimedDocs
    /\ \E v \in Vectors \cup {NullVec}, t \in {now, now + 1} :
          Insert(v, t, MetaAX, "alpha")

(* documents that differ in vector and metadata *)
IngestTagged ==
    /\ Len(embeddings) < MaxTaggedDocs
    /\ \E v \in Vectors \cup {NullVec}, m \in Metadatas :
          Insert(v, now + 1, m, "alpha")

(* documents that differ in vector, creation time and content *)
IngestText ==
    /\ Len(embeddings) < MaxTextDocs
    /\ \E v \in Vectors \cup {NullVec}, t \in {now, now + 1}, c \in Contents :
          Insert(v, t, MetaAX, c)

(* documents that differ in vector, creation time (times may collide) and  *)
(* category                                                                *)
IngestKeyed ==
    /\ Len(embeddings) < MaxKeyedDocs
    /\ \E v \in Vectors \cup {NullVec},
          tm \in {<<now, MetaAX>>, <<now + 1, MetaAX>>, <<now + 1, MetaBX>>} :
          Insert(v, tm[1], tm[2], "alpha")

Return ==
    /\ call # Idle
    /\ call' = Idle
    /\ embeddings' = embeddings
    /\ now' = now
    /\ Elsewhere

(* time passes between two statements: NOW() of a later call is later *)
Tick ==
    /\ call = Idle
    /\ now < MaxClock
    /\ now' = now + 1
    /\ UNCHANGED <<embeddings, call>>
    /\ Elsewhere

(* the error a call ends with: the functions hold no RAISE statement and    *)
(* no check of their parameters, so a call ends with its rows, never with  *)
(* an error of its own                                                     *)
CallError == NULL

(* a function that deletes the rows it has read *)
ReadOnly_Consuming ==
    /\ embeddings' = <<>>
    /\ UNCHANGED now
    /\ Elsewhere

(* the functions are declared STABLE and their bodies are SELECT           *)
(* statements: a call leaves the table as it is                            *)
ReadOnly ==
    /\ UNCHANGED <<embeddings, now>>
    /\ Elsewhere

----------------------------------------------------------------------------
(* similarity-search.sql *)

MinSimilarities == {0, 4, 5}

CategoryFilters == {NULL, "a", "b"}

AgentFilters == {NULL, "x"}

(* the WHERE clause without its similarity threshold *)
SemanticMatch_NoThreshold(e, q, min_similarity, category_filter, agent_filter) ==
    /\ e.embedding # NullVec
    /\ (category_filter = NULL
          \/ JsonText(e.metadata, "category") = category_filter)
    /\ (agent_filter = NULL
          \/ JsonText(e.metadata, "agent") = agent_filter)

SemanticMatch(e, q, min_similarity, category_filter, agent_filter) ==
    /\ e.embedding # NullVec
    /\ Similarity(e.embedding, q) >= min_similarity
    /\ (category_filter = NULL
          \/ (JsonText(e.metadata, "category") # NULL
                /\ JsonText(e.metadata, "category") = category_filter))
    /\ (agent_filter = NULL
          \/ (JsonText(e.metadata, "agent") # NULL
                /\ JsonText(e.metadata, "agent") = agent_filter))

SemanticRow(e, q) ==
    [id |-> e.id, similarity |-> Similarity(e.embedding, q),
     metadata |-> e.metadata, created_at |-> e.created_at]

semantic_search(q, limit_count, min_similarity, category_filter, agent_filter) ==
    LET matched == {e \in Table :
                      SemanticMatch(e, q, min_similarity, category_filter, agent_filter)}
        keyed == {<<(<<Asc(CosineDistance(e.embedding, q))>>), e>> : e \in matched}
    IN  { [i \in 1..Len(Limit(o, limit_count)) |-> SemanticRow(o[i], q)] :
          o \in OrderBy(keyed) }

SemanticSearch ==
    /\ call = Idle
    /\ \E q \in QueryVectors, k \in Limits, ms \in MinSimilarities,
          cf \in CategoryFilters, af \in AgentFilters :
          \E rows \in semantic_search(q, k, ms, cf, af) :
             call' = [op |-> "semantic_search", query_embedding |-> q,
                      limit_count |-> k, min_similarity |-> ms,
                      category_filter |-> cf, agent_filter |-> af,
                      rows |-> rows]
    /\ ReadOnly

CoarseLimits == {1, MaxLimit}

FinalLimits == 1..MaxLimit

(* the coarse_results CTE: min(coarse_limit, N) documents with a vector.   *)
(* The ORDER BY ... LIMIT is served by the HNSW index, whose scan is       *)
(* approximate: which documents it returns is left open.                   *)
CoarseResults(q, coarse_limit) ==
    {S \in SUBSET WithVector :
        Cardinality(S) = Min(coarse_limit, Cardinality(WithVector))}

(* a stage 2 that keeps every candidate *)
RagPass_NoThreshold(cr, q, min_similarity) == TRUE

(* WHERE cr.coarse_sim >= min_similarity *)
RagPass(cr, q, min_similarity) == Similarity(cr.embedding, q) >= min_similarity

RagRow(cr, q) ==
    [id |-> cr.id,
     coarse_similarity |-> Similarity(cr.embedding, q),
     exact_similarity |-> Similarity(cr.embedding, q),
     metadata |-> cr.metadata]

(* stage 2 of rag_retrieve over the candidates of stage 1 *)
rag_retrieve(coarse_results, q, final_limit, min_similarity) ==
    LET passing == {cr \in coarse_results : RagPass(cr, q, min_similarity)}
        keyed == {<<(<<Desc(Similarity(cr.embedding, q))>>), RagRow(cr, q)>> :
                  cr \in passing}
    IN  {Limit(o, final_limit) : o \in OrderBy(keyed)}

RagRetrieve ==
    /\ call = Idle
    /\ \E q \in QueryVectors, cl \in CoarseLimits, fl \in FinalLimits,
          ms \in MinSimilarities :
          \E coarse \in CoarseResults(q, cl) :
             \E rows \in rag_retrieve(coarse, q, fl, ms) :
                call' = [op |-> "rag_retrieve", query_embedding |-> q,
                         coarse_limit |-> cl, final_limit |-> fl,
                         min_similarity |-> ms,
                         coarse_results |-> {cr.id : cr \in coarse},
                         rows |-> rows]
    /\ ReadOnly

(* query_embeddings: arrays of one or two vectors *)
QueryArrays == UNION {[1..n -> {V1, V2}] : n \in 1..2}

(* 'sum' is no aggregation method of the function *)
AggregationMethods == {"max", "avg", "min", "sum"}

(* the rows of query_similarities of document e, none discarded *)
ClusterSimilarities_NoThreshold(e, query_embeddings) ==
    { <<i, Similarity(e.embedding, query_embeddings[i])>> :
      i \in 1..Len(query_embeddings) }

(* the rows of query_similarities of document e that pass                  *)
(* WHERE qs.similarity > 0.5, as <<query_idx, similarity>> pairs           *)
ClusterSimilarities(e, query_embeddings) ==
    { p \in { <<i, Similarity(e.embedding, query_embeddings[i])>> :
              i \in 1..Len(query_embeddings) } : 2 * p[2] > SimScale }

(* an aggregate that adds the similarities up *)
ClusterAvg_Sum(pairs) == <<SumValues(pairs), 1>>

(* AVG(qs.similarity) *)
ClusterAvg(pairs) == <<SumValues(pairs), Cardinality(pairs)>>

(* MAX(qs.similarity) *)
ClusterMax(pairs) == CHOOSE m \in {p[2] : p \in pairs} : \A p \in pairs : p[2] <= m

(* MIN(qs.similarity) *)
ClusterMin(pairs) == CHOOSE m \in {p[2] : p \in pairs} : \A p \in pairs : p[2] >= m

(* CASE aggregation_method ... ELSE a.max_sim END *)
BestSimilarity(pairs, aggregation_method) ==
    CASE aggregation_method = "max" -> <<ClusterMax(pairs), 1>>
      [] aggregation_method = "avg" -> ClusterAvg(pairs)
      [] aggregation_method = "min" -> <<ClusterMin(pairs), 1>>
      [] OTHER -> <<ClusterMax(pairs), 1>>

ClusterRow(e, pairs, aggregation_method) ==
    [id |-> e.id,
     best_similarity |-> BestSimilarity(pairs, aggregation_method),
     avg_similarity |-> ClusterAvg(pairs),
     matching_queries |-> Cardinality({p[1] : p \in pairs}),
     metadata |-> e.metadata]

cluster_search(query_embeddings, limit_count, aggregation_method) ==
    LET aggregated ==
            {e \in WithVector : ClusterSimilarities(e, query_embeddings) # {}}
        row(e) == ClusterRow(e, ClusterSimilarities(e, query_embeddings),
                             aggregation_method)
        keyed == {<<(<<DescFrac(row(e).best_similarity)>>), row(e)>> : e \in aggregated}
    IN  {Limit(o, limit_count) : o \in OrderBy(keyed)}

ClusterSearch ==
    /\ call = Idle
    /\ \E qs \in QueryArrays, k \in Limits, m \in AggregationMethods :
          \E rows \in cluster_search(qs, k, m) :
             call' = [op |-> "cluster_search", query_embeddings |-> qs,
                      limit_count |-> k, aggregation_method |-> m, rows |-> rows]
    /\ ReadOnly

(* weights in units of 1 / WeightScale *)
WeightScale == 10

(* <<vector_weight, keyword_weight>> *)
HybridWeights == {<<7, 3>>, <<WeightScale, 0>>, <<0, WeightScale>>}

KeywordQueries == {"alpha", "gamma"}

(* to_tsvector('english', content) @@ plainto_tsquery('english', keyword_query) *)
KeywordMatch(content, keyword_query) == content = keyword_query

(* COALESCE(ts_rank_cd(...), 0), the rank of the text-search collaborator, *)
(* in units of 1 / SimScale: positive for a match, 0 otherwise             *)
KeywordRank(content, keyword_query) ==
    IF KeywordMatch(content, keyword_query) THEN 1 ELSE 0

(* a WHERE clause without the keyword alternative *)
HybridMatch_VectorOnly(e, q, keyword_query) ==
    /\ e.embedding # NullVec
    /\ 10 * Similarity(e.embedding, q) > 3 * SimScale

(* the WHERE clause of hybrid_search *)
HybridMatch(e, q, keyword_query) ==
    /\ e.embedding # NullVec
    /\ (10 * Similarity(e.embedding, q) > 3 * SimScale
          \/ KeywordMatch(e.content, keyword_query))

(* combined_score is in units of 1 / (SimScale * WeightScale) *)
HybridRow(e, q, keyword_query, vector_weight, keyword_weight) ==
    [id |-> e.id, content |-> e.content,
     vector_score |-> Similarity(e.embedding, q),
     keyword_score |-> KeywordRank(e.content, keyword_query),
     combined_score |-> vector_weight * Similarity(e.embedding, q)
                           + keyword_weight * KeywordRank(e.content, keyword_query),
     metadata |-> e.metadata]

hybrid_search(q, keyword_query, limit_count, vector_weight, keyword_weight) ==
    LET row(e) == HybridRow(e, q, keyword_query, vector_weight, keyword_weight)
        keyed == {<<(<<Desc(row(e).combined_score)>>), row(e)>> :
                  e \in {x \in Table : HybridMatch(x, q, keyword_query)}}
    IN  {Limit(o, limit_count) : o \in OrderBy(keyed)}

HybridSearch ==
    /\ call = Idle
    /\ \E q \in QueryVectors, kq \in KeywordQueries, k \in Limits, w \in HybridWeights :
          \E rows \in hybrid_search(q, kq, k, w[1], w[2]) :
             call' = [op |-> "hybrid_search", query_embedding |-> q,
                      keyword_query |-> kq, limit_count |-> k,
                      vector_weight |-> w[1], keyword_weight |-> w[2],
                      rows |-> rows]
    /\ ReadOnly

DecayDays == {1, 2}

(* every decay_days divides DecayScale *)
DecayScale == CHOOSE d \in DecayDays : \A u \in DecayDays : u <= d

TimeWeights == {0, 2, WeightScale}

(* a recency that grows with the age of the row *)
Recency_Inverted(e, decay_days) ==
    <<ExpBase ^ (DecayScale * now + ((now - e.created_at) * DecayScale) \div decay_days),
      ExpBase ^ (DecayScale * now)>>

(* EXP(-age / decay_days) as a quotient: the age of a row is below now, so *)
(* the denominator ExpBase^(DecayScale * now) serves every row of a call   *)
Recency(e, decay_days) ==
    <<ExpBase ^ (DecayScale * now - ((now - e.created_at) * DecayScale) \div decay_days),
      ExpBase ^ (DecayScale * now)>>

(* (1 - time_weight) * v_sim + time_weight * r_score *)
TemporalScore(e, q, decay_days, time_weight) ==
    <<(WeightScale - time_weight) * Similarity(e.embedding, q) * Recency(e, decay_days)[2]
         + time_weight * SimScale * Recency(e, decay_days)[1],
      WeightScale * SimScale * Recency(e, decay_days)[2]>>

TemporalRow(e, q, decay_days, time_weight) ==
    [id |-> e.id,
     vector_similarity |-> Similarity(e.embedding, q),
     recency_score |-> Recency(e, decay_days),
     combined_score |-> TemporalScore(e, q, decay_days, time_weight),
     created_at |-> e.created_at,
     metadata |-> e.metadata]

temporal_search(q, limit_count, decay_days, time_weight) ==
    LET row(e) == TemporalRow(e, q, decay_days, time_weight)
        keyed == {<<(<<DescFrac(row(e).combined_score)>>), row(e)>> : e \in WithVector}
    IN  {Limit(o, limit_count) : o \in OrderBy(keyed)}

TemporalSearch ==
    /\ call = Idle
    /\ \E q \in QueryVectors, k \in Limits, d \in DecayDays, w \in TimeWeights :
          \E rows \in temporal_search(q, k, d, w) :
             call' = [op |-> "temporal_search", query_embedding |-> q,
                      limit_count |-> k, decay_days |-> d, time_weight |-> w,
                      rows |-> rows]
    /\ ReadOnly

(* lambda in units of 1 / LambdaScale: 0, 0.5 and 1, and 1.5, which the    *)
(* FLOAT parameter accepts as it accepts any other number                  *)
LambdaScale == 2

Lambdas == 0..(LambdaScale + 1)

(* a penalty that looks at the last selected embedding only *)
MaxSimToSelected_LastOnly(e, selected_embeddings) ==
    IF selected_embeddings = <<>> THEN 0
    ELSE Similarity(e.embedding, selected_embeddings[Len(selected_embeddings)])

(* COALESCE((SELECT MAX(1 - (e.embedding <=> se)) FROM                     *)
(* unnest(selected_embeddings) AS se), 0)                                  *)
MaxSimToSelected(e, selected_embeddings) ==
    IF selected_embeddings = <<>> THEN 0
    ELSE CHOOSE m \in {Similarity(e.embedding, selected_embeddings[i]) :
                       i \in 1..Len(selected_embeddings)} :
            \A i \in 1..Len(selected_embeddings) :
               Similarity(e.embedding, selected_embeddings[i]) <= m

(* a score whose penalty is not weighted by 1 - lambda *)
MmrScore_FullPenalty(rel, lambda, max_sim_to_selected) ==
    lambda * rel - LambdaScale * max_sim_to_selected

(* a score without the penalty *)
MmrScore_NoPenalty(rel, lambda, max_sim_to_selected) == lambda * rel

(* lambda * rel - (1 - lambda) * max_sim_to_selected, times LambdaScale *)
MmrScore(rel, lambda, max_sim_to_selected) ==
    lambda * rel - (LambdaScale - lambda) * max_sim_to_selected

(* a selection that does not leave out the documents selected already *)
MmrSelect_Reselect(q, lambda, selected_ids, selected_embeddings) ==
    LET key(e) == MmrScore(Similarity(e.embedding, q), lambda,
                           MaxSimToSelected(e, selected_embeddings))
    IN  {e \in WithVector : \A o \in WithVector : key(o) <= key(e)}

(* SELECT INTO rec ... ORDER BY score DESC LIMIT 1: a document of maximal  *)
(* score among those with a vector that are not selected yet               *)
MmrSelect(q, lambda, selected_ids, selected_embeddings) ==
    LET candidates == {e \in WithVector :
                         \A i \in 1..Len(selected_ids) : e.id # selected_ids[i]}
        key(e) == MmrScore(Similarity(e.embedding, q), lambda,
                           MaxSimToSelected(e, selected_embeddings))
    IN  {e \in candidates : \A o \in candidates : key(o) <= key(e)}

(* a row whose penalty is taken over the selected embeddings with rec's    *)
(* own among them                                                          *)
MmrRow_SelfPenalty(rec, q, lambda, selected_embeddings) ==
    LET with_self == Append(selected_embeddings, rec.embedding)
    IN  [id |-> rec.id,
         relevance |-> Similarity(rec.embedding, q),
         diversity_penalty |-> MaxSimToSelected(rec, with_self),
         mmr_score |-> MmrScore(Similarity(rec.embedding, q), lambda,
                                MaxSimToSelected(rec, with_self)),
         metadata |-> rec.metadata]

(* the row RETURN NEXT emits for rec: the penalty is taken over the        *)
(* embeddings selected before rec                                          *)
MmrRow(rec, q, lambda, selected_embeddings) ==
    [id |-> rec.id,
     relevance |-> Similarity(rec.embedding, q),
     diversity_penalty |-> MaxSimToSelected(rec, selected_embeddings),
     mmr_score |-> MmrScore(Similarity(rec.embedding, q), lambda,
                            MaxSimToSelected(rec, selected_embeddings)),
     metadata |-> rec.metadata]

(* FOR i IN 1..limit_count LOOP, with `remaining` iterations to go *)
RECURSIVE MmrLoop(_, _, _, _, _)
MmrLoop(q, lambda, remaining, selected_ids, selected_embeddings) ==
    IF remaining <= 0 THEN {<<>>}
    ELSE LET recs == MmrSelect(q, lambda, selected_ids, selected_embeddings)
         IN  IF recs = {} THEN {<<>>}
             ELSE UNION { { <<MmrRow(rec, q, lambda, selected_embeddings)>> \o rest :
                            rest \in MmrLoop(q, lambda, remaining - 1,
                                             Append(selected_ids, rec.id),
                                             Append(selected_embeddings, rec.embedding)) } :
                          rec \in recs }

mmr_search(q, limit_count, lambda) == MmrLoop(q, lambda, limit_count, <<>>, <<>>)

MmrSearch ==
    /\ call = Idle
    /\ \E q \in QueryVectors, k \in Limits, l \in Lambdas :
          \E rows \in mmr_search(q, k, l) :
             call' = [op |-> "mmr_search", query_embedding |-> q,
                      limit_count |-> k, lambda |-> l, rows |-> rows]
    /\ ReadOnly

----------------------------------------------------------------------------
(* attention-ops.sql *)

Temperatures == {1, 2}

(* every temperature divides TempScale *)
TempScale == CHOOSE t \in Temperatures : \A u \in Temperatures : u <= t

ExpOffset == SimScale * TempScale

(* score / temperature, in units of 1 / (SimScale * TempScale) *)
ExpArg(score, temperature) == (score * TempScale) \div temperature

(* EXP(x), scaled by ExpBase^ExpOffset *)
Exp(x) == ExpBase ^ (x + ExpOffset)

(* n / NULLIF(d, 0): NULL when d is 0 (or NULL, the SUM of no rows) *)
NullWeight == <<0, 0>>

Weight(n, d) == IF d = 0 THEN NullWeight ELSE <<n, d>>

RECURSIVE GCD(_, _)
GCD(a, b) == IF b = 0 THEN a ELSE GCD(b, a % b)

(* a quotient in lowest terms *)
Reduced(w) ==
    IF w[2] = 0 THEN w
    ELSE <<w[1] \div GCD(w[1], w[2]), w[2] \div GCD(w[1], w[2])>>

AttentionScoreRow(e, q, temperature, softmax_sum) ==
    [id |-> e.id,
     raw_score |-> Similarity(e.embedding, q),
     attention_weight |->
        Weight(Exp(ExpArg(Similarity(e.embedding, q), temperature)), softmax_sum),
     metadata |-> e.metadata]

(* a softmax whose denominator is taken over the returned rows *)
attention_scores_OverReturned(q, limit_count, temperature) ==
    LET exp(e) == Exp(ExpArg(Similarity(e.embedding, q), temperature))
        keyed == {<<(<<Desc(exp(e))>>), e>> : e \in WithVector}
    IN  { LET top == Limit(o, limit_count)
              softmax_sum == SumValues({<<top[i].id, exp(top[i])>> : i \in 1..Len(top)})
          IN  [i \in 1..Len(top) |-> AttentionScoreRow(top[i], q, temperature, softmax_sum)] :
          o \in OrderBy(keyed) }

attention_scores(q, limit_count, temperature) ==
    LET softmax_sum ==
            SumValues({<<e.id, Exp(ExpArg(Similarity(e.embedding, q), temperature))>> :
                       e \in WithVector})
        scored == {AttentionScoreRow(e, q, temperature, softmax_sum) : e \in WithVector}
        keyed == {<<(<<DescFrac(r.attention_weight)>>), r>> : r \in scored}
    IN  {Limit(o, limit_count) : o \in OrderBy(keyed)}

AttentionScores ==
    /\ call = Idle
    /\ \E q \in QueryVectors, k \in Limits, t \in Temperatures :
          \E rows \in attention_scores(q, k, t) :
             call' = [op |-> "attention_scores", query_embedding |-> q,
                      limit_count |-> k, temperature |-> t, rows |-> rows]
    /\ ReadOnly

BlockSizes == {1, 2, MaxTimedDocs + 1}

(* a block id that cycles through the blocks instead of filling them *)
BlockId_Cyclic(row_num, block_size) == ((row_num - 1) % block_size) + 1

BlockId(row_num, block_size) == ((row_num - 1) \div block_size) + 1

(* the rows of flash_attention_search, before the final ORDER BY, for one  *)
(* numbering of the documents: numbered[i] is the document with row_num i  *)
FlashFinalAttention(numbered, q, block_size) ==
    LET score(i) == Similarity(numbered[i].embedding, q)
        blk(i) == BlockId(i, block_size)
        members(b) == {j \in 1..Len(numbered) : blk(j) = b}
        max_score(b) ==
            CHOOSE m \in {score(j) : j \in members(b)} :
               \A j \in members(b) : score(j) <= m
        stable_exp(i) == Exp(ExpArg(score(i) - max_score(blk(i)), 1))
        sum_exp(b) == SumValues({<<j, stable_exp(j)>> : j \in members(b)})
    IN  { [id |-> numbered[i].id,
           attention_score |-> Weight(stable_exp(i), sum_exp(blk(i))),
           block_id |-> blk(i),
           metadata |-> numbered[i].metadata] : i \in 1..Len(numbered) }

flash_attention_search(q, block_size, limit_count) ==
    LET numberings == OrderBy({<<(<<Asc(e.created_at)>>), e>> : e \in WithVector})
        ranked(numbered) ==
            OrderBy({<<(<<DescFrac(r.attention_score)>>), r>> :
                     r \in FlashFinalAttention(numbered, q, block_size)})
    IN  UNION { {Limit(o, limit_count) : o \in ranked(numbered)} :
                numbered \in numberings }

FlashAttentionSearch ==
    /\ call = Idle
    /\ \E q \in QueryVectors, b \in BlockSizes, k \in Limits :
          \E rows \in flash_attention_search(q, b, k) :
             call' = [op |-> "flash_attention_search", query_embedding |-> q,
                      block_size |-> b, limit_count |-> k, rows |-> rows]
    /\ ReadOnly

(* <<num_heads, head_dim>>: slices that cover the vector or a part of it *)
HeadShapes == {<<1, Dim>>, <<2, Dim \div 2>>, <<3, Dim \div 3>>, <<2, Dim \div 3>>}

(* subvector(v, start, count) *)
SubVector(v, start, count) == SubSeq(v, start, start + count - 1)

(* 1 - (subvector(e.embedding, ...) <=> subvector(query_embedding, ...))   *)
(* for head h, in units of 1 / head_dim                                    *)
HeadScore(e, q, h, head_dim) ==
    Dot(SubVector(e.embedding, (h - 1) * head_dim + 1, head_dim),
        SubVector(q, (h - 1) * head_dim + 1, head_dim))

MultiheadRow(e, q, num_heads, head_dim) ==
    [id |-> e.id, content |-> e.content,
     aggregated_attention |->
        <<SumValues({<<h, HeadScore(e, q, h, head_dim)>> : h \in 1..num_heads}),
          head_dim * num_heads>>,
     head_attentions |-> [h \in 1..num_heads |-> HeadScore(e, q, h, head_dim)],
     metadata |-> e.metadata]

multihead_attention_aggregate(q, num_heads, head_dim, limit_count) ==
    LET row(e) == MultiheadRow(e, q, num_heads, head_dim)
        keyed == {<<(<<DescFrac(row(e).aggregated_attention)>>), row(e)>> :
                  e \in WithVector}
    IN  {Limit(o, limit_count) : o \in OrderBy(keyed)}

MultiheadAttentionAggregate ==
    /\ call = Idle
    /\ \E q \in QueryVectors, s \in HeadShapes, k \in Limits :
          \E rows \in multihead_attention_aggregate(q, s[1], s[2], k) :
             call' = [op |-> "multihead_attention_aggregate", query_embedding |-> q,
                      num_heads |-> s[1], head_dim |-> s[2], limit_count |-> k,
                      rows |-> rows]
    /\ ReadOnly

ContextWindows == {1, 2}

(* the queries of attention_weighted_retrieve: with V5 the scores of a     *)
(* table can sum to 0                                                      *)
WeightedQueryVectors == QueryVectors \cup {V5}

(* attention_threshold in units of 1 / WeightScale *)
AttentionThresholds == {1, 5}

(* a.score / NULLIF(SUM(a.score) OVER (), 0), with a positive denominator *)
ScoreShare(score, total) ==
    IF total = 0 THEN NullWeight
    ELSE IF total < 0 THEN <<-score, -total>>
    ELSE <<score, total>>

(* the filtered CTE of attention_weighted_retrieve, in each of its orders *)
WeightedFiltered(q, context_window, attention_threshold) ==
    LET total == SumValues({<<e.id, Similarity(e.embedding, q)>> : e \in WithVector})
        weight(e) == ScoreShare(Similarity(e.embedding, q), total)
        kept == {e \in WithVector :
                   /\ weight(e) # NullWeight
                   /\ WeightScale * weight(e)[1] >= attention_threshold * weight(e)[2]}
        keyed == {<<(<<DescFrac(weight(e))>>),
                    [id |-> e.id, content |-> e.content,
                     attention_weight |-> weight(e)]>> : e \in kept}
    IN  {Limit(o, context_window) : o \in OrderBy(keyed)}

(* the one row the aggregates over filtered yield; they are NULL over no   *)
(* rows                                                                    *)
WeightedRow(f) ==
    [context_text |-> [i \in 1..Len(f) |-> f[i].content],
     total_attention |->
        IF Len(f) = 0 THEN NullWeight
        ELSE <<SumValues({<<i, f[i].attention_weight[1]>> : i \in 1..Len(f)}),
               f[1].attention_weight[2]>>,
     contributing_ids |-> [i \in 1..Len(f) |-> f[i].id]]

attention_weighted_retrieve(q, context_window, attention_threshold) ==
    {<<WeightedRow(f)>> : f \in WeightedFiltered(q, context_window, attention_threshold)}

AttentionWeightedRetrieve ==
    /\ call = Idle
    /\ \E q \in WeightedQueryVectors, cw \in ContextWindows, th \in AttentionThresholds :
          \E rows \in attention_weighted_retrieve(q, cw, th) :
             call' = [op |-> "attention_weighted_retrieve", query_embedding |-> q,
                      context_window |-> cw, attention_threshold |-> th,
                      rows |-> rows]
    /\ ReadOnly

(* UUID[] arguments: arrays of one or two ids, repeated ids and ids of no  *)
(* row included                                                            *)
IdArrays == UNION {[1..n -> 1..MaxKeyedDocs] : n \in 1..2}

HeadCounts == {1, 2}

(* attn > 0.01 *)
AboveThreshold(w) == 100 * w[1] > w[2]

(* EXP(score / temperature) of a pair of documents *)
PairExp(s, t, temperature) ==
    Exp(ExpArg(Similarity(s.embedding, t.embedding), temperature))

(* a selection that keeps the rows without a vector *)
Selected_AnyRow(ids) == {e \in Table : e.id \in Range(ids)}

(* WHERE id = ANY(ids) AND embedding IS NOT NULL *)
Selected(ids) == {e \in WithVector : e.id \in Range(ids)}

(* a window that partitions by the source alone *)
SelfPartition_SourceOnly(r, x) == x[1].id = r[1].id

(* PARTITION BY rs.s_id, rs.h_idx over the triples <<s, t, h>> of all_pairs *)
SelfPartition(r, x) == x[1].id = r[1].id /\ x[3] = r[3]

(* the softmax_scores CTE of self_attention *)
SelfSoftmaxScores(source_ids, head_count, temperature) ==
    LET all_pairs == {<<s, t, h>> : s \in Selected(source_ids),
                                    t \in WithVector, h \in 1..head_count}
        sum_exp(r) ==
            SumValues({<<x, PairExp(x[1], x[2], temperature)>> :
                       x \in {y \in all_pairs : SelfPartition(r, y)}})
    IN  { [s_id |-> r[1].id, t_id |-> r[2].id, h_idx |-> r[3],
           score |-> Similarity(r[1].embedding, r[2].embedding),
           attn_score |-> <<PairExp(r[1], r[2], temperature), sum_exp(r)>>] :
          r \in all_pairs }

(* the rows of self_attention as the peer groups of its ORDER BY *)
self_attention(softmax_scores) ==
    Peers({ <<(<<Asc(ss.s_id), Asc(ss.h_idx), DescFrac(ss.attn_score)>>),
              [source_id |-> ss.s_id, attended_id |-> ss.t_id,
               head_idx |-> ss.h_idx, attention_score |-> ss.attn_score]>> :
            ss \in {x \in softmax_scores : AboveThreshold(x.attn_score)} })

SelfAttention ==
    /\ call = Idle
    /\ \E ids \in IdArrays, h \in HeadCounts, t \in Temperatures :
          LET softmax_scores == SelfSoftmaxScores(ids, h, t)
          IN  call' = [op |-> "self_attention", source_ids |-> ids,
                       head_count |-> h, temperature |-> t,
                       softmax |-> softmax_scores,
                       rows |-> self_attention(softmax_scores)]
    /\ ReadOnly

(* key_value_filter: NULL or a JSONB object *)
NullJson == {<<NULL, NULL>>}

KeyFilters == {NullJson, {<<"category", "a">>}, {<<"category", "b">>}}

(* keys that do not leave out the queries *)
CrossKeys_WithQueries(query_ids, key_value_filter) ==
    {e \in WithVector :
        key_value_filter = NullJson \/ JsonContains(e.metadata, key_value_filter)}

(* the keys CTE of cross_attention *)
CrossKeys(query_ids, key_value_filter) ==
    {e \in WithVector :
        /\ (key_value_filter = NullJson \/ JsonContains(e.metadata, key_value_filter))
        /\ \A i \in 1..Len(query_ids) : e.id # query_ids[i]}

(* the softmax_attention CTE of cross_attention *)
CrossSoftmaxAttention(query_ids, key_value_filter, temperature) ==
    LET keys == CrossKeys(query_ids, key_value_filter)
        sum_exp(q) == SumValues({<<k.id, PairExp(q, k, temperature)>> : k \in keys})
    IN  { [q_id |-> r[1].id, k_id |-> r[2].id, k_meta |-> r[2].metadata,
           score |-> Similarity(r[1].embedding, r[2].embedding),
           attn_weight |-> <<PairExp(r[1], r[2], temperature), sum_exp(r[1])>>] :
          r \in Selected(query_ids) \X keys }

cross_attention(softmax_attention) ==
    Peers({ <<(<<Asc(sa.q_id), DescFrac(sa.attn_weight)>>),
              [query_id |-> sa.q_id, key_id |-> sa.k_id,
               attention_weight |-> sa.attn_weight,
               key_metadata |-> sa.k_meta]>> :
            sa \in {x \in softmax_attention : AboveThreshold(x.attn_weight)} })

CrossAttention ==
    /\ call = Idle
    /\ \E ids \in IdArrays, f \in KeyFilters, t \in Temperatures :
          LET softmax_attention == CrossSoftmaxAttention(ids, f, t)
          IN  call' = [op |-> "cross_attention", query_ids |-> ids,
                       key_value_filter |-> f, temperature |-> t,
                       softmax |-> softmax_attention,
                       rows |-> cross_attention(softmax_attention)]
    /\ ReadOnly

(* a mask that lets a source attend to strictly older documents only *)
CausalMask_Strict(s, t) == t.created_at < s.created_at

(* JOIN claude_flow.embeddings t ON t.created_at <= s.created_at *)
CausalMask(s, t) == t.created_at <= s.created_at

(* the softmax_scores CTE of causal_attention *)
CausalSoftmaxScores(source_ids, temperature) ==
    LET targets(s) == {t \in WithVector : CausalMask(s, t)}
        causal_pairs == UNION { {<<s, t>> : t \in targets(s)} :
                                s \in Selected(source_ids) }
        sum_exp(s) == SumValues({<<t.id, PairExp(s, t, temperature)>> :
                                 t \in targets(s)})
    IN  { [s_id |-> r[1].id, s_created |-> r[1].created_at,
           t_id |-> r[2].id, t_created |-> r[2].created_at,
           score |-> Similarity(r[1].embedding, r[2].embedding),
           attn |-> <<PairExp(r[1], r[2], temperature), sum_exp(r[1])>>] :
          r \in causal_pairs }

causal_attention(softmax_scores) ==
    Peers({ <<(<<Asc(ss.s_id), DescFrac(ss.attn)>>),
              [source_id |-> ss.s_id, attended_id |-> ss.t_id,
               attention_score |-> ss.attn,
               source_created |-> ss.s_created,
               attended_created |-> ss.t_created]>> :
            ss \in {x \in softmax_scores : AboveThreshold(x.attn)} })

CausalAttention ==
    /\ call = Idle
    /\ \E ids \in IdArrays, t \in Temperatures :
          LET softmax_scores == CausalSoftmaxScores(ids, t)
          IN  call' = [op |-> "causal_attention", source_ids |-> ids,
                       temperature |-> t,
                       softmax |-> softmax_scores,
                       rows |-> causal_attention(softmax_scores)]
    /\ ReadOnly

(* array_position(arr, id): the first index of id in arr *)
ArrayPosition(arr, id) ==
    CHOOSE i \in 1..Len(arr) : arr[i] = id /\ \A j \in 1..(i - 1) : arr[j] # id

(* ROW_NUMBER() OVER (ORDER BY array_position(embedding_ids, e.id)) *)
MatrixIdx(embedding_ids, e) ==
    1 + Cardinality({x \in Selected(embedding_ids) :
                       ArrayPosition(embedding_ids, x.id)
                          < ArrayPosition(embedding_ids, e.id)})

(* a window that partitions by the column *)
MatrixPartition_Column(r, x) == x[2].id = r[2].id

(* PARTITION BY p.r_id over the pairs <<i1, i2>> *)
MatrixPartition(r, x) == x[1].id = r[1].id

attention_matrix(embedding_ids, temperature) ==
    LET indexed == Selected(embedding_ids)
        pairs == indexed \X indexed
        sum_exp(r) ==
            SumValues({<<x, PairExp(x[1], x[2], temperature)>> :
                       x \in {y \in pairs : MatrixPartition(r, y)}})
        softmax ==
            { [row_id |-> r[1].id, col_id |-> r[2].id,
               row_idx |-> MatrixIdx(embedding_ids, r[1]),
               col_idx |-> MatrixIdx(embedding_ids, r[2]),
               attention_value |->
                  <<PairExp(r[1], r[2], temperature), sum_exp(r)>>] : r \in pairs }
    IN  OrderBy({<<(<<Asc(s.row_idx), Asc(s.col_idx)>>), s>> : s \in softmax})

(* embedding_ids: arrays of one to three ids *)
MatrixIdArrays == UNION {[1..n -> 1..MaxKeyedDocs] : n \in 1..3}

AttentionMatrix ==
    /\ call = Idle
    /\ \E ids \in MatrixIdArrays, t \in Temperatures :
          \E rows \in attention_matrix(ids, t) :
             call' = [op |-> "attention_matrix", embedding_ids |-> ids,
                      temperature |-> t, rows |-> rows]
    /\ ReadOnly

----------------------------------------------------------------------------
(* Performance tools: the store persisted in metrics.json.  `store` is the *)
(* content of the file, `now` is Date.now() in milliseconds, and           *)
(* report_calls counts the performance/report calls made so far.  A        *)
(* handler has no await between loadPerfStore and savePerfStore, so a call *)
(* is one step.                                                            *)

(* Keep last 100 metrics *)
HistoryLimit == 100

(* s.slice(-n) *)
SliceLast(s, n) == SubSeq(s, Max(1, Len(s) - n + 1), Len(s))

(* a cut that keeps the oldest entries *)
KeepLast_Oldest(metrics) ==
    IF Len(metrics) > HistoryLimit THEN SubSeq(metrics, 1, HistoryLimit) ELSE metrics

(* if (store.metrics.length > 100) store.metrics = store.metrics.slice(-100) *)
KeepLast(metrics) ==
    IF Len(metrics) > HistoryLimit THEN SliceLast(metrics, HistoryLimit) ELSE metrics

(* currentMetrics: the timestamp and the numbers drawn in the call tell    *)
(* the entries of different calls apart; they stand here as the number of  *)
(* the call                                                                *)
CurrentMetrics == [sample |-> report_calls + 1]

(* the handler of performance/report *)
PerformanceReport ==
    /\ call = Idle
    /\ report_calls < MaxReports
    /\ store' = [store EXCEPT !.metrics = KeepLast(Append(store.metrics, CurrentMetrics))]
    /\ report_calls' = report_calls + 1
    /\ call' = [op |-> "performance/report", current |-> CurrentMetrics]
    /\ UNCHANGED <<embeddings, now, script>>

(* Object.keys(benchmarks) *)
BenchmarkSuites == <<"memory", "neural", "swarm", "io">>

(* input.suite: the suite names the callers of the model use; 'cache' is   *)
(* no key of benchmarks                                                    *)
SuiteInputs == {"all", "memory", "io", "cache"}

(* (input.iterations as number) || 100 *)
IterationInputs == {100, 50}

(* suite === 'all' ? Object.keys(benchmarks) : [suite] *)
SuitesToRun(suite) == IF suite = "all" THEN BenchmarkSuites ELSE <<suite>>

(* `bench-${suiteName}-${Date.now()}` *)
BenchId(suiteName, millis) == <<"bench", suiteName, millis>>

(* result: Benchmark *)
BenchmarkRecord(suiteName, iterations) ==
    [id |-> BenchId(suiteName, now), name |-> suiteName,
     iterations |-> iterations, createdAt |-> now]

(* store.benchmarks[id] = result: the record stored under id, if any, is   *)
(* replaced                                                                *)
PutBenchmark(benchmarks, result) ==
    {b \in benchmarks : b.id # result.id} \cup {result}

(* for (const suiteName of suitesToRun) { const bench =                    *)
(* benchmarks[suiteName]; if (bench) { ... } }, from position i on         *)
RECURSIVE RunSuites(_, _, _, _)
RunSuites(suitesToRun, i, iterations, benchmarks) ==
    IF i > Len(suitesToRun) THEN benchmarks
    ELSE IF suitesToRun[i] \in Range(BenchmarkSuites)
         THEN RunSuites(suitesToRun, i + 1, iterations,
                        PutBenchmark(benchmarks,
                                     BenchmarkRecord(suitesToRun[i], iterations)))
         ELSE RunSuites(suitesToRun, i + 1, iterations, benchmarks)

(* the handler of performance/benchmark *)
PerformanceBenchmark ==
    /\ call = Idle
    /\ Cardinality(store.benchmarks) < MaxBenchmarks
    /\ \E suite \in SuiteInputs, iterations \in IterationInputs :
          /\ store' = [store EXCEPT !.benchmarks =
                          RunSuites(SuitesToRun(suite), 1, iterations, store.benchmarks)]
          /\ call' = [op |-> "performance/benchmark", suite |-> suite,
                      iterations |-> iterations, loaded |-> store.benchmarks]
    /\ UNCHANGED <<embeddings, now, report_calls, script>>

----------------------------------------------------------------------------
(* run-migrations.sh.  A migration file is named by a number; `script`     *)
(* holds the position in the script, the sorted file list, the files psql  *)
(* was started on with what happened in each, ${PIPESTATUS[0]} of the last *)
(* pipeline, the exit status, and whether the last line was printed.       *)

(* the sets of *.sql files the directory may hold *)
MigrationSets == SUBSET (1..MaxMigrations)

(* ls -1 ... | sort *)
RECURSIVE Sort(_)
Sort(S) ==
    IF S = {} THEN <<>>
    ELSE LET least == CHOOSE x \in S : \A y \in S : x <= y
         IN  <<least>> \o Sort(S \ {least})

(* what happens when psql runs a file: every statement succeeds, a         *)
(* statement fails, or the server cannot be reached                        *)
Outcomes == {"ok", "sql_error", "no_connection"}

(* the exit status of psql -f, called without ON_ERROR_STOP: after a       *)
(* failed statement psql goes on with the file and ends with 0; it ends    *)
(* with 2 when the connection is bad                                       *)
PsqlExit(outcome) == IF outcome = "no_connection" THEN 2 ELSE 0

(* if [ ! -d "$MIGRATIONS_DIR" ]: the CLI is tried and the script exits    *)
(* with its status                                                         *)
DirectoryMissing ==
    /\ script.pc = "start"
    /\ \E status \in {0, 1} :
          script' = [script EXCEPT !.pc = "exited", !.exit = status]
    /\ UNCHANGED <<embeddings, now, call, store, report_calls>>

(* for migration in $(ls -1 "$MIGRATIONS_DIR"/*.sql | sort) *)
ListMigrations ==
    /\ script.pc = "start"
    /\ \E S \in MigrationSets :
          script' = [script EXCEPT !.pc = "loop", !.files = Sort(S)]
    /\ UNCHANGED <<embeddings, now, call, store, report_calls>>

(* psql ... -f "$migration" 2>&1 | grep -v "^$" | while read line *)
RunMigration ==
    /\ script.pc = "loop"
    /\ Len(script.ran) < Len(script.files)
    /\ \E outcome \in Outcomes :
          script' = [script EXCEPT !.pc = "check",
                                   !.ran = Append(@, script.files[Len(script.ran) + 1]),
                                   !.outcomes = Append(@, outcome),
                                   !.pipestatus = PsqlExit(outcome)]
    /\ UNCHANGED <<embeddings, now, call, store, report_calls>>

(* if [ ${PIPESTATUS[0]} -eq 0 ]; then echo Complete; else echo Failed;    *)
(* exit 1; fi                                                              *)
CheckStatus ==
    /\ script.pc = "check"
    /\ script' = IF script.pipestatus = 0
                 THEN [script EXCEPT !.pc = "loop"]
                 ELSE [script EXCEPT !.pc = "exited", !.exit = 1]
    /\ UNCHANGED <<embeddings, now, call, store, report_calls>>

(* done; echo "All migrations complete!" *)
AllComplete ==
    /\ script.pc = "loop"
    /\ Len(script.ran) = Len(script.files)
    /\ script' = [script EXCEPT !.pc = "exited", !.exit = 0, !.all_complete = TRUE]
    /\ UNCHANGED <<embeddings, now, call, store, report_calls>>

----------------------------------------------------------------------------

NextRank ==
    \/ IngestVec
    \/ RagRetrieve
    \/ ClusterSearch
    \/ MmrSearch
    \/ Return

SpecRank == Init /\ [][NextRank]_vars

(* every function of the two files over one table *)
Next ==
    \/ IngestText
    \/ SemanticSearch
    \/ RagRetrieve
    \/ HybridSearch
    \/ ClusterSearch
    \/ TemporalSearch
    \/ MmrSearch
    \/ AttentionScores
    \/ SelfAttention
    \/ CrossAttention
    \/ MultiheadAttentionAggregate
    \/ FlashAttentionSearch
    \/ AttentionWeightedRetrieve
    \/ CausalAttention
    \/ AttentionMatrix
    \/ Return

Spec == Init /\ [][Next]_vars

NextPartitioned ==
    \/ IngestKeyed
    \/ SelfAttention
    \/ CrossAttention
    \/ CausalAttention
    \/ AttentionMatrix
    \/ Return

SpecPartitioned == Init /\ [][NextPartitioned]_vars

NextAttention ==
    \/ IngestTimed
    \/ AttentionScores
    \/ FlashAttentionSearch
    \/ Return

SpecAttention == Init /\ [][NextAttention]_vars

NextSearch ==
    \/ IngestTagged
    \/ SemanticSearch
    \/ Return

SpecSearch == Init /\ [][NextSearch]_vars

(* temporal_search over documents of different ages, with a clock that     *)
(* runs on between insertions and calls                                    *)
NextTemporal ==
    \/ IngestTimed
    \/ Tick
    \/ TemporalSearch
    \/ Return

SpecTemporal == Init /\ [][NextTemporal]_vars

(* the performance tools, with a clock that may or may not advance between *)
(* two calls                                                               *)
NextPerformance ==
    \/ PerformanceReport
    \/ PerformanceBenchmark
    \/ Tick
    \/ Return

SpecPerformance == Init /\ [][NextPerformance]_vars

(* one run of run-migrations.sh *)
NextMigrations ==
    \/ DirectoryMissing
    \/ ListMigrations
    \/ RunMigration
    \/ CheckStatus
    \/ AllComplete

SpecMigrations == Init /\ [][NextMigrations]_vars

----------------------------------------------------------------------------
(* Claims *)

IsCall(op) == call.op = op

RowsMeetSemanticFilters ==
    /\ Len(call.rows) <= call.limit_count
    /\ \A i \in 1..Len(call.rows) :
          /\ call.rows[i].similarity >= call.min_similarity
          /\ (call.category_filter # NULL =>
                JsonText(call.rows[i].metadata, "category") = call.category_filter)
          /\ (call.agent_filter # NULL =>
                JsonText(call.rows[i].metadata, "agent") = call.agent_filter)

(* C1, as stated: the rows semantic_search returns are strictly sorted by  *)
(* descending similarity, each has similarity >= min_similarity and        *)
(* satisfies the metadata filters, and there are at most limit_count rows. *)
C1_StrictlySorted ==
    IsCall("semantic_search") =>
        /\ RowsMeetSemanticFilters
        /\ \A i \in 1..(Len(call.rows) - 1) :
              call.rows[i].similarity > call.rows[i + 1].similarity

(* C1, amended: the rows semantic_search returns are sorted by similarity, *)
(* never increasing (documents of equal similarity follow one another),    *)
(* each has similarity >= min_similarity and satisfies the metadata        *)
(* filters, and there are at most limit_count rows.                        *)
C1_SortedFiltered ==
    IsCall("semantic_search") =>
        /\ RowsMeetSemanticFilters
        /\ \A i \in 1..(Len(call.rows) - 1) :
              call.rows[i].similarity >= call.rows[i + 1].similarity

(* a search with both filters set that returns two documents of equal     *)
(* similarity, the limit not reached, while the table holds a document     *)
(* that passes the threshold and that the filters reject                   *)
C1_Witness ==
    /\ IsCall("semantic_search")
    /\ call.category_filter # NULL
    /\ call.agent_filter # NULL
    /\ Len(call.rows) = 2
    /\ call.limit_count > 2
    /\ call.rows[1].similarity = call.rows[2].similarity
    /\ \E e \in WithVector :
          /\ \A i \in 1..Len(call.rows) : call.rows[i].id # e.id
          /\ Similarity(e.embedding, call.query_embedding) >= call.min_similarity

(* the documents of a result and their weights in lowest terms, in order *)
FlashIdsWeights(rows) ==
    [i \in 1..Len(rows) |-> <<rows[i].id, Reduced(rows[i].attention_score)>>]

ScoresIdsWeights(rows) ==
    [i \in 1..Len(rows) |-> <<rows[i].id, Reduced(rows[i].attention_weight)>>]

(* C5: when fewer documents have a vector than block_size,                 *)
(* flash_attention_search puts every document in block 1 and returns what  *)
(* attention_scores returns at temperature 1 for the same query and limit: *)
(* the same documents in the same order with the same weights.  Each       *)
(* result of the one function is a result of the other.                    *)
C5_FlashMatchesScores ==
    /\ (IsCall("flash_attention_search")
          /\ Cardinality(WithVector) < call.block_size) =>
          /\ \A i \in 1..Len(call.rows) : call.rows[i].block_id = 1
          /\ FlashIdsWeights(call.rows) \in
                { ScoresIdsWeights(r) :
                  r \in attention_scores(call.query_embedding, call.limit_count, 1) }
    /\ (IsCall("attention_scores") /\ call.temperature = 1) =>
          \A b \in {s \in BlockSizes : Cardinality(WithVector) < s} :
             ScoresIdsWeights(call.rows) \in
                { FlashIdsWeights(r) :
                  r \in flash_attention_search(call.query_embedding, b,
                                               call.limit_count) }

(* a flash search over three documents in one block that returns two of    *)
(* them with different weights                                             *)
C5_Witness ==
    /\ IsCall("flash_attention_search")
    /\ Cardinality(WithVector) = 3
    /\ call.block_size > 3
    /\ Len(call.rows) = 2
    /\ ~FracEq(call.rows[1].attention_score, call.rows[2].attention_score)

(* the weights of a set P of <<target, weight>> pairs sum to 1: they have  *)
(* one denominator, and their numerators sum to it                         *)
SumsToOne(P) ==
    /\ P # {}
    /\ \A p \in P, r \in P : p[2][2] = r[2][2]
    /\ \A p \in P : p[2][2] > 0 /\ SumValues({<<r[1], r[2][1]>> : r \in P}) = p[2][2]

(* the attention partitions of a call, before pruning, each as the set of  *)
(* its <<target, weight>> pairs                                            *)
PartitionWeights ==
    IF IsCall("self_attention")
    THEN { {<<x.t_id, x.attn_score>> :
            x \in {y \in call.softmax : y.s_id = r.s_id /\ y.h_idx = r.h_idx}} :
           r \in call.softmax }
    ELSE IF IsCall("cross_attention")
    THEN { {<<x.k_id, x.attn_weight>> :
            x \in {y \in call.softmax : y.q_id = r.q_id}} : r \in call.softmax }
    ELSE { {<<x.t_id, x.attn>> :
            x \in {y \in call.softmax : y.s_id = r.s_id}} : r \in call.softmax }

(* the weights of the returned rows *)
ReturnedWeights ==
    IF IsCall("cross_attention")
    THEN {r.attention_weight : r \in UNION Range(call.rows)}
    ELSE {r.attention_score : r \in UNION Range(call.rows)}

(* C2: in self_attention, cross_attention and causal_attention the softmax *)
(* weights of every partition (source and head, query, source) sum to 1    *)
(* over all targets of the partition before pruning, and every returned    *)
(* row has a weight strictly greater than 0.01.                            *)
C2_PartitionsNormalised ==
    (IsCall("self_attention") \/ IsCall("cross_attention")
        \/ IsCall("causal_attention")) =>
        /\ \A P \in PartitionWeights : SumsToOne(P)
        /\ \A w \in ReturnedWeights : 100 * w[1] > w[2]

(* a self_attention call with two heads and two sources with a vector in   *)
(* which pruning removes a target of some partition and keeps another      *)
C2_Witness ==
    /\ IsCall("self_attention")
    /\ call.head_count = 2
    /\ Cardinality({x.s_id : x \in call.softmax}) = 2
    /\ \E x \in call.softmax : 100 * x.attn_score[1] <= x.attn_score[2]
    /\ \E g \in Range(call.rows) : \E r \in g : r.head_idx = 2

(* the sources of a causal_attention call: the documents of source_ids     *)
(* that have a vector                                                      *)
CausalSources == {s \in WithVector : s.id \in Range(call.source_ids)}

MatrixGiven == {e.id : e \in {x \in WithVector : x.id \in Range(call.embedding_ids)}}

(* C9: attention_matrix returns one entry for every ordered pair of the    *)
(* given ids that have a vector and no other entry (n * n entries for n    *)
(* such ids), and the attention values of every row sum to 1.              *)
C9_MatrixRows ==
    IsCall("attention_matrix") =>
        /\ Len(call.rows) = Cardinality(MatrixGiven) * Cardinality(MatrixGiven)
        /\ {<<r.row_id, r.col_id>> : r \in Range(call.rows)} = MatrixGiven \X MatrixGiven
        /\ \A i \in MatrixGiven :
              SumsToOne({<<r.col_id, r.attention_value>> :
                         r \in {x \in Range(call.rows) : x.row_id = i}})

(* an attention_matrix call over two of three documents with a vector,     *)
(* whose entries are not all equal                                         *)
C9_Witness ==
    /\ IsCall("attention_matrix")
    /\ Cardinality(WithVector) = 3
    /\ Cardinality(MatrixGiven) = 2
    /\ Len(call.rows) = 4
    /\ ~FracEq(call.rows[1].attention_value, call.rows[2].attention_value)

(* the ids of a result, in order *)
Ids(rows) == [i \in 1..Len(rows) |-> rows[i].id]

(* the document of an id *)
Doc(id) == CHOOSE e \in Table : e.id = id

(* every ranking of the documents with a vector by cosine similarity to q, *)
(* descending, truncated to k                                              *)
RelevanceRanking(q, k) ==
    { Ids(Limit(o, k)) :
      o \in OrderBy({<<(<<Desc(Similarity(e.embedding, q))>>), e>> : e \in WithVector}) }

(* C3: with lambda = 1 mmr_search returns the documents, in the order, of  *)
(* ranking all documents with a vector purely by relevance, descending,    *)
(* and truncating to the limit, also when the corpus holds duplicate       *)
(* vectors: its result is such a ranking, and every such ranking is a      *)
(* result of it.                                                           *)
C3_LambdaOneIsRelevance ==
    (IsCall("mmr_search") /\ call.lambda = LambdaScale) =>
        /\ Ids(call.rows) \in RelevanceRanking(call.query_embedding, call.limit_count)
        /\ RelevanceRanking(call.query_embedding, call.limit_count) =
              { Ids(r) : r \in mmr_search(call.query_embedding, call.limit_count,
                                          LambdaScale) }

(* an mmr_search with lambda = 1 that returns two documents of the same    *)
(* vector first and a less relevant document third                         *)
C3_Witness ==
    /\ IsCall("mmr_search")
    /\ call.lambda = LambdaScale
    /\ Len(call.rows) = 3
    /\ Doc(call.rows[1].id).embedding = Doc(call.rows[2].id).embedding
    /\ call.rows[3].relevance < call.rows[2].relevance
    /\ Cardinality(WithVector) > 3

(* the largest similarity of document e to the documents of the ids in S *)
MaxSimTo(e, S) ==
    CHOOSE m \in {Similarity(e.embedding, Doc(i).embedding) : i \in S} :
       \A i \in S : Similarity(e.embedding, Doc(i).embedding) <= m

(* C4: with lambda = 0, at every step after the first the document         *)
(* mmr_search selects has the smallest maximum similarity to the documents *)
(* selected before it among all unselected documents: a near duplicate of  *)
(* a selected document is not taken while a less similar one is left.      *)
C4_LambdaZeroIsDiversity ==
    (IsCall("mmr_search") /\ call.lambda = 0) =>
        \A i \in 2..Len(call.rows) :
           LET before == {call.rows[j].id : j \in 1..(i - 1)}
           IN  \A u \in WithVector :
                  u.id \notin before =>
                     MaxSimTo(Doc(call.rows[i].id), before) <= MaxSimTo(u, before)

(* an mmr_search with lambda = 0 over four documents with a vector that    *)
(* returns three, and passes over a document more similar to the first     *)
(* pick than the second pick is                                            *)
C4_Witness ==
    /\ IsCall("mmr_search")
    /\ call.lambda = 0
    /\ Len(call.rows) = 3
    /\ Cardinality(WithVector) = 4
    /\ \E u \in WithVector :
          /\ u.id \notin {call.rows[1].id, call.rows[2].id}
          /\ Similarity(u.embedding, Doc(call.rows[1].id).embedding)
                > Similarity(Doc(call.rows[2].id).embedding,
                             Doc(call.rows[1].id).embedding)

(* the coarse candidates of a rag_retrieve call whose exact similarity to  *)
(* the query is at least min_similarity                                    *)
RagPassing ==
    {e \in Table :
        /\ e.id \in call.coarse_results
        /\ Similarity(e.embedding, call.query_embedding) >= call.min_similarity}

(* C7: rag_retrieve returns exactly min(final_limit, n) documents, where n *)
(* counts the coarse candidates (at most coarse_limit) whose exact         *)
(* similarity is >= min_similarity; they are passing candidates of highest *)
(* exact similarity, sorted by it descending; with n < final_limit all n   *)
(* are returned.                                                           *)
C7_RagTopOfCandidates ==
    IsCall("rag_retrieve") =>
        /\ Cardinality(call.coarse_results) <= call.coarse_limit
        /\ Len(call.rows) = Min(call.final_limit, Cardinality(RagPassing))
        /\ Cardinality(Range(Ids(call.rows))) = Len(call.rows)
        /\ Range(Ids(call.rows)) \subseteq {e.id : e \in RagPassing}
        /\ \A i \in 1..Len(call.rows) :
              call.rows[i].exact_similarity =
                 Similarity(Doc(call.rows[i].id).embedding, call.query_embedding)
        /\ \A i \in 1..(Len(call.rows) - 1) :
              call.rows[i].exact_similarity >= call.rows[i + 1].exact_similarity
        /\ \A e \in RagPassing :
              e.id \notin Range(Ids(call.rows)) =>
                 \A i \in 1..Len(call.rows) :
                    call.rows[i].exact_similarity
                       >= Similarity(e.embedding, call.query_embedding)

(* a rag_retrieve over three candidates of which two pass the threshold:   *)
(* both are returned, the more similar first, though final_limit is three  *)
C7_Witness ==
    /\ IsCall("rag_retrieve")
    /\ Cardinality(call.coarse_results) = 3
    /\ Cardinality(WithVector) > 3
    /\ call.final_limit = 3
    /\ Cardinality(RagPassing) = 2
    /\ Len(call.rows) = 2
    /\ call.rows[1].exact_similarity > call.rows[2].exact_similarity

(* the documents of a cluster_search result and their aggregated scores in *)
(* lowest terms, in order                                                  *)
ClusterIdsScores(rows) ==
    [i \in 1..Len(rows) |-> <<rows[i].id, Reduced(rows[i].best_similarity)>>]

(* C8: cluster_search([v, v], limit, 'avg') returns the documents, in the  *)
(* order and with the aggregated scores, of cluster_search([v], limit,     *)
(* 'avg'): every result of the one call is a result of the other.          *)
C8_DuplicateQueryAvg ==
    (IsCall("cluster_search") /\ call.aggregation_method = "avg") =>
        /\ Len(call.query_embeddings) = 1 =>
              ClusterIdsScores(call.rows) \in
                 { ClusterIdsScores(r) :
                   r \in cluster_search(<<call.query_embeddings[1],
                                          call.query_embeddings[1]>>,
                                        call.limit_count, "avg") }
        /\ (Len(call.query_embeddings) = 2
              /\ call.query_embeddings[1] = call.query_embeddings[2]) =>
              ClusterIdsScores(call.rows) \in
                 { ClusterIdsScores(r) :
                   r \in cluster_search(<<call.query_embeddings[1]>>,
                                        call.limit_count, "avg") }

(* a cluster_search with a duplicated query vector and 'avg' that returns  *)
(* two documents of different scores and leaves out a document whose       *)
(* similarity is not above 0.5                                             *)
C8_Witness ==
    /\ IsCall("cluster_search")
    /\ call.aggregation_method = "avg"
    /\ Len(call.query_embeddings) = 2
    /\ call.query_embeddings[1] = call.query_embeddings[2]
    /\ Len(call.rows) = 2
    /\ call.limit_count > 2
    /\ ~FracEq(call.rows[1].best_similarity, call.rows[2].best_similarity)
    /\ Cardinality(WithVector) > 2

(* C10: no retrieval, attention or diversity function inserts, modifies or *)
(* deletes a document: the step that makes a call, and the step that       *)
(* returns from it, leave the table as it was, so that after any sequence  *)
(* of calls the corpus is the one the ingestion left.                      *)
C10_QueriesLeaveCorpus ==
    [][(call # Idle \/ call' # Idle) => embeddings' = embeddings]_vars

(* a call in progress over a table of two documents, one with a vector and *)
(* one without, that returned a row                                        *)
C10_Witness ==
    /\ call # Idle
    /\ Len(embeddings) = 2
    /\ Cardinality(WithVector) = 1
    /\ Len(call.rows) > 0

(* the functions whose result is a sequence of rows with an id column *)
RowIdOps ==
    {"semantic_search", "rag_retrieve", "hybrid_search", "cluster_search",
     "temporal_search", "mmr_search", "attention_scores",
     "multihead_attention_aggregate", "flash_attention_search"}

(* every document id a call mentions: in its result rows, as a source or   *)
(* query, as an attended target or key, before and after pruning           *)
CallIds ==
    IF call.op \in RowIdOps THEN Range(Ids(call.rows))
    ELSE IF IsCall("attention_weighted_retrieve")
    THEN Range(call.rows[1].contributing_ids)
    ELSE IF IsCall("self_attention") \/ IsCall("causal_attention")
    THEN {r.source_id : r \in UNION Range(call.rows)}
            \cup {r.attended_id : r \in UNION Range(call.rows)}
            \cup {x.s_id : x \in call.softmax} \cup {x.t_id : x \in call.softmax}
    ELSE IF IsCall("cross_attention")
    THEN {r.query_id : r \in UNION Range(call.rows)}
            \cup {r.key_id : r \in UNION Range(call.rows)}
            \cup {x.q_id : x \in call.softmax} \cup {x.k_id : x \in call.softmax}
    ELSE IF IsCall("attention_matrix")
    THEN {r.row_id : r \in Range(call.rows)} \cup {r.col_id : r \in Range(call.rows)}
    ELSE {}

(* the rows of block b in the result of flash_attention_search *)
FlashBlockRows(b) == {r \in Range(call.rows) : r.block_id = b}

(* C11: a document without a vector appears in the result of no search or  *)
(* attention function, neither as a row, as a source or query, nor as a    *)
(* target, and it takes part in no softmax denominator and in no block:    *)
(* when attention_scores or flash_attention_search return every document   *)
(* with a vector, the weights (of each block) sum to 1 and the blocks are  *)
(* filled by the documents with a vector alone.                            *)
C11_NoVectorNoPart ==
    call # Idle =>
        /\ CallIds \subseteq {e.id : e \in WithVector}
        /\ IsCall("rag_retrieve") =>
              call.coarse_results \subseteq {e.id : e \in WithVector}
        /\ (IsCall("attention_scores") /\ Len(call.rows) > 0
              /\ Len(call.rows) = Cardinality(WithVector)) =>
              SumsToOne({<<r.id, r.attention_weight>> : r \in Range(call.rows)})
        /\ (IsCall("flash_attention_search")
              /\ Len(call.rows) = Cardinality(WithVector)) =>
              \A b \in {r.block_id : r \in Range(call.rows)} :
                 /\ SumsToOne({<<r.id, r.attention_score>> : r \in FlashBlockRows(b)})
                 /\ Cardinality(FlashBlockRows(b)) =
                       Min(call.block_size,
                           Cardinality(WithVector) - (b - 1) * call.block_size)

(* a flash_attention_search with blocks of one document over a table whose *)
(* first document has no vector: the second document is returned, in       *)
(* block 1                                                                 *)
C11_Witness ==
    /\ IsCall("flash_attention_search")
    /\ call.block_size = 1
    /\ Len(embeddings) = 2
    /\ embeddings[1].embedding = NullVec
    /\ Len(call.rows) = 1
    /\ call.rows[1].id = 2
    /\ call.rows[1].block_id = 1

(* C12, as stated: multihead_attention_aggregate called with num_heads and *)
(* head_dim whose product differs from the vector dimension fails with     *)
(* DimensionMismatch and returns no rows.                                  *)
C12_MismatchFails ==
    (IsCall("multihead_attention_aggregate")
        /\ call.num_heads * call.head_dim # Dim) =>
        /\ CallError = "DimensionMismatch"
        /\ call.rows = <<>>

(* what the code does with 2 heads of 2 dimensions over vectors of 6: it   *)
(* scores the first 4 dimensions and returns rows                          *)
C12_MismatchReturnsRows ==
    /\ IsCall("multihead_attention_aggregate")
    /\ call.num_heads * call.head_dim < Dim
    /\ call.rows # <<>>

(* the call in progress has a limit <= 0, a lambda outside [0, 1] or a     *)
(* temperature <= 0                                                        *)
HasInvalidParameter ==
    \/ "limit_count" \in DOMAIN call /\ call.limit_count <= 0
    \/ "final_limit" \in DOMAIN call /\ call.final_limit <= 0
    \/ "lambda" \in DOMAIN call /\ (call.lambda < 0 \/ call.lambda > LambdaScale)
    \/ "temperature" \in DOMAIN call /\ call.temperature <= 0

(* C13, as stated: every operation called with a non-positive limit, a     *)
(* lambda outside [0, 1] or a non-positive temperature fails with          *)
(* InvalidParameter before the table is scanned, and returns no rows.      *)
C13_InvalidParameterFails ==
    (call # Idle /\ HasInvalidParameter) =>
        /\ CallError = "InvalidParameter"
        /\ call.rows = <<>>

(* what the code does with a lambda of 1.5: mmr_search scans the table and *)
(* returns rows                                                            *)
C13_LambdaAboveOneReturnsRows ==
    /\ IsCall("mmr_search")
    /\ call.lambda > LambdaScale
    /\ call.limit_count > 0
    /\ call.rows # <<>>

(* the ids handed to the call in progress as sources, queries or matrix    *)
(* members                                                                 *)
GivenIds ==
    IF call.op \in {"self_attention", "causal_attention"} THEN Range(call.source_ids)
    ELSE IF call.op = "cross_attention" THEN Range(call.query_ids)
    ELSE IF call.op = "attention_matrix" THEN Range(call.embedding_ids)
    ELSE {}

(* C14, as stated: self_attention, cross_attention, causal_attention and   *)
(* attention_matrix called with a source or query id that no row of the    *)
(* table carries fail with NotFound.                                       *)
C14_AbsentIdFails ==
    (\E id \in GivenIds : \A e \in Table : e.id # id) =>
        CallError = "NotFound"

(* what the code does with source ids 1 and 3 over a table of one          *)
(* document: self_attention returns the rows of source 1 and none for 3    *)
C14_AbsentIdIgnored ==
    /\ IsCall("self_attention")
    /\ Len(embeddings) = 1
    /\ call.source_ids = <<1, 3>>
    /\ call.rows # <<>>
    /\ \A peers \in Range(call.rows) : \A r \in peers : r.source_id = 1

(* the maximum similarity of e to the documents of the ids in S, 0 when S  *)
(* is empty                                                                *)
PenaltyTo(e, S) == IF S = {} THEN 0 ELSE MaxSimTo(e, S)

(* lambda * relevance - (1 - lambda) * maxSimilarityToSelected of document *)
(* e in the call in progress, given the ids S selected so far, times       *)
(* LambdaScale                                                             *)
StepScore(e, S) ==
    call.lambda * Similarity(e.embedding, call.query_embedding)
       - (LambdaScale - call.lambda) * PenaltyTo(e, S)

(* C15: at every step of mmr_search the document appended maximises        *)
(* lambda * relevance - (1 - lambda) * maxSimilarityToSelected over all    *)
(* documents with a vector that are not selected yet, where the maximum    *)
(* similarity is taken to the documents of the earlier steps and is 0 at   *)
(* the first step; the row carries that penalty and that score.            *)
C15_StepMaximisesScore ==
    IsCall("mmr_search") =>
        \A i \in 1..Len(call.rows) :
           LET before == {call.rows[j].id : j \in 1..(i - 1)}
               picked == Doc(call.rows[i].id)
           IN  /\ picked \in WithVector
               /\ picked.id \notin before
               /\ \A u \in WithVector :
                     u.id \notin before => StepScore(u, before) <= StepScore(picked, before)
               /\ call.rows[i].diversity_penalty = PenaltyTo(picked, before)
               /\ call.rows[i].mmr_score = StepScore(picked, before)
               /\ i = 1 => call.rows[i].diversity_penalty = 0

(* an mmr_search with lambda = 0.5 whose third pick is less similar to the *)
(* second pick than to the first, and which leaves a document unselected   *)
C15_Witness ==
    /\ IsCall("mmr_search")
    /\ call.lambda = 1
    /\ Len(call.rows) = 3
    /\ Cardinality(WithVector) = 4
    /\ Similarity(Doc(call.rows[3].id).embedding, Doc(call.rows[2].id).embedding)
          < Similarity(Doc(call.rows[3].id).embedding, Doc(call.rows[1].id).embedding)

(* C16: mmr_search returns exactly min(limit, N) rows, N the number of     *)
(* documents with a vector, with pairwise distinct ids; when the           *)
(* candidates run out before the limit the loop exits and the shorter      *)
(* result is returned, without an error.                                   *)
C16_MinLimitDistinct ==
    IsCall("mmr_search") =>
        /\ Len(call.rows) = Min(call.limit_count, Cardinality(WithVector))
        /\ \A i, j \in 1..Len(call.rows) :
              call.rows[i].id = call.rows[j].id => i = j
        /\ CallError = NULL

(* an mmr_search with limit 3 over a table of three documents of which two *)
(* have a vector: the loop exits in its third round and two rows return    *)
C16_Witness ==
    /\ IsCall("mmr_search")
    /\ call.limit_count = 3
    /\ Len(embeddings) = 3
    /\ Cardinality(WithVector) = 2
    /\ Len(call.rows) = 2

(* the documents that pass the filters of the semantic_search in progress *)
SemanticMatched ==
    {e \in Table : SemanticMatch(e, call.query_embedding, call.min_similarity,
                                 call.category_filter, call.agent_filter)}

(* C17, as stated: semantic_search puts documents of equal similarity in   *)
(* ascending id order, so that the tied documents that survive the         *)
(* truncation are those of the smallest ids: the result is determined by   *)
(* the table and the arguments.                                            *)
C17_TiesByAscendingId ==
    IsCall("semantic_search") =>
        /\ \A i \in 1..(Len(call.rows) - 1) :
              call.rows[i].similarity = call.rows[i + 1].similarity =>
                 call.rows[i].id < call.rows[i + 1].id
        /\ \A e \in SemanticMatched :
              \A i \in 1..Len(call.rows) :
                 (e.id \notin Range(Ids(call.rows))
                    /\ Similarity(e.embedding, call.query_embedding)
                          = call.rows[i].similarity) => call.rows[i].id < e.id

(* what ORDER BY e.embedding <=> query_embedding allows: of two documents  *)
(* of equal similarity the one with the larger id is returned first        *)
C17_TieInDescendingId ==
    /\ IsCall("semantic_search")
    /\ Len(call.rows) = 2
    /\ call.rows[1].similarity = call.rows[2].similarity
    /\ call.rows[1].id > call.rows[2].id

(* C18, as stated: when several unselected documents attain the maximal    *)
(* score at a step of mmr_search, as all do at the first step with         *)
(* lambda = 0, the one with the smallest id is selected.                   *)
C18_TieTakesSmallestId ==
    IsCall("mmr_search") =>
        \A i \in 1..Len(call.rows) :
           LET before == {call.rows[j].id : j \in 1..(i - 1)}
               picked == Doc(call.rows[i].id)
           IN  \A u \in WithVector :
                  (u.id \notin before
                     /\ StepScore(u, before) = StepScore(picked, before)) =>
                     picked.id <= u.id

(* what ORDER BY ... DESC LIMIT 1 allows: with lambda = 0 and two          *)
(* documents with a vector the first pick is document 2                    *)
C18_FirstPickNotSmallest ==
    /\ IsCall("mmr_search")
    /\ call.lambda = 0
    /\ Cardinality(WithVector) = 2
    /\ Len(call.rows) >= 1
    /\ \E u \in WithVector : u.id < call.rows[1].id

(* the documents with a vector whose similarity to the query of the        *)
(* hybrid_search in progress is > 0.3 or whose content matches its keyword *)
(* query                                                                   *)
HybridQualifying ==
    {e \in WithVector :
        \/ 10 * Similarity(e.embedding, call.query_embedding) > 3 * SimScale
        \/ e.content = call.keyword_query}

(* C19: hybrid_search returns only documents that have a vector and whose  *)
(* similarity is > 0.3 or that match the keyword query, and returns        *)
(* min(limit, number of such documents) of them, each once, none left out  *)
(* scoring higher than a returned one; each combined score is              *)
(* vector_weight * similarity + keyword_weight * keyword relevance, the    *)
(* relevance being 0 without a match; rows are ordered by combined score,  *)
(* descending.                                                             *)
C19_HybridQualifyScoreOrder ==
    IsCall("hybrid_search") =>
        /\ \A r \in Range(call.rows) : Doc(r.id) \in HybridQualifying
        /\ Len(call.rows) = Min(call.limit_count, Cardinality(HybridQualifying))
        /\ \A i, j \in 1..Len(call.rows) :
              call.rows[i].id = call.rows[j].id => i = j
        /\ \A r \in Range(call.rows) :
              /\ r.vector_score = Similarity(Doc(r.id).embedding, call.query_embedding)
              /\ Doc(r.id).content # call.keyword_query => r.keyword_score = 0
              /\ r.combined_score = call.vector_weight * r.vector_score
                                       + call.keyword_weight * r.keyword_score
        /\ \A i \in 1..(Len(call.rows) - 1) :
              call.rows[i].combined_score >= call.rows[i + 1].combined_score
        /\ \A e \in HybridQualifying :
              e.id \notin Range(Ids(call.rows)) =>
                 \A r \in Range(call.rows) :
                    call.vector_weight * Similarity(e.embedding, call.query_embedding)
                       + call.keyword_weight * KeywordRank(e.content, call.keyword_query)
                       <= r.combined_score

(* a hybrid_search with weights 0.7 and 0.3 over two documents of          *)
(* similarity below 0.3: the one whose content matches the keyword is      *)
(* returned, the other is not                                              *)
C19_Witness ==
    /\ IsCall("hybrid_search")
    /\ call.vector_weight = 7
    /\ call.limit_count = 2
    /\ Cardinality(WithVector) = 2
    /\ \A e \in WithVector :
          10 * Similarity(e.embedding, call.query_embedding) <= 3 * SimScale
    /\ Len(call.rows) = 1
    /\ call.rows[1].keyword_score > 0

(* the <<query index, similarity>> pairs of document e and the query       *)
(* vectors of the cluster_search in progress whose similarity is > 0.5     *)
SurvivingPairs(e) ==
    { <<i, Similarity(e.embedding, call.query_embeddings[i])>> :
      i \in { j \in 1..Len(call.query_embeddings) :
              2 * Similarity(e.embedding, call.query_embeddings[j]) > SimScale } }

(* C20: cluster_search discards every (document, query vector) pair of     *)
(* similarity <= 0.5 before it aggregates: every returned document has a   *)
(* surviving pair, its aggregated score is the max, avg or min of the      *)
(* similarities of its surviving pairs alone and so is > 0.5, and the rows *)
(* are ordered by that score, descending.                                  *)
C20_AggregatesSurvivorsOnly ==
    IsCall("cluster_search") =>
        /\ \A r \in Range(call.rows) :
              LET pairs == SurvivingPairs(Doc(r.id))
                  sims == {p[2] : p \in pairs}
                  best == r.best_similarity
              IN  /\ Doc(r.id) \in WithVector
                  /\ pairs # {}
                  /\ r.matching_queries = Cardinality(pairs)
                  /\ 2 * best[1] > SimScale * best[2]
                  /\ call.aggregation_method = "max" =>
                        /\ best[2] = 1
                        /\ best[1] \in sims
                        /\ \A s \in sims : s <= best[1]
                  /\ call.aggregation_method = "min" =>
                        /\ best[2] = 1
                        /\ best[1] \in sims
                        /\ \A s \in sims : s >= best[1]
                  /\ call.aggregation_method = "avg" =>
                        FracEq(best, <<SumValues(pairs), Cardinality(pairs)>>)
        /\ \A i \in 1..(Len(call.rows) - 1) :
              FracLE(call.rows[i + 1].best_similarity, call.rows[i].best_similarity)

(* a cluster_search by 'min' with two query vectors that returns a         *)
(* document of which one pair survives and the other, of similarity        *)
(* <= 0.5, is discarded, after a document of which both pairs survive      *)
C20_Witness ==
    /\ IsCall("cluster_search")
    /\ call.aggregation_method = "min"
    /\ Len(call.query_embeddings) = 2
    /\ Len(call.rows) = 2
    /\ call.rows[1].matching_queries = 2
    /\ call.rows[2].matching_queries = 1
    /\ \E i \in 1..2 :
          2 * Similarity(Doc(call.rows[2].id).embedding, call.query_embeddings[i])
             <= SimScale

(* the 1-based rank of document e among the documents with a vector in the *)
(* order of creation time, then id                                         *)
RankByCreatedThenId(e) ==
    1 + Cardinality({x \in WithVector :
                        \/ x.created_at < e.created_at
                        \/ x.created_at = e.created_at /\ x.id < e.id})

(* C21, as stated: flash_attention_search numbers the documents in the     *)
(* order of creation time, then id: the document of rank r gets block      *)
(* ((r - 1) div block_size) + 1, also when documents share a creation      *)
(* time, so that the block of a document is the same in every run.         *)
C21_BlocksByCreatedThenId ==
    IsCall("flash_attention_search") =>
        \A r \in Range(call.rows) :
           r.block_id = ((RankByCreatedThenId(Doc(r.id)) - 1) \div call.block_size) + 1

(* what ROW_NUMBER() OVER (ORDER BY e.created_at) allows: of two documents *)
(* created at the same time, with blocks of one, the one with the larger   *)
(* id is in block 1                                                        *)
C21_LaterIdInFirstBlock ==
    /\ IsCall("flash_attention_search")
    /\ call.block_size = 1
    /\ Cardinality(WithVector) = 2
    /\ \A e, x \in WithVector : e.created_at = x.created_at
    /\ \E r \in Range(call.rows) :
          r.block_id = 1 /\ \E x \in WithVector : x.id < r.id

(* exp(similarity / temperature) of document e in the attention_scores     *)
(* call in progress                                                        *)
CallExp(e) ==
    Exp(ExpArg(Similarity(e.embedding, call.query_embedding), call.temperature))

(* the sum of CallExp over all documents with a vector *)
CorpusExpSum == SumValues({<<e.id, CallExp(e)>> : e \in WithVector})

(* C22: the weight attention_scores attaches to a returned document is     *)
(* normalised over all documents with a vector, not over the returned      *)
(* rows: it is the same in the results of every limit, the returned        *)
(* weights sum to at most 1, and they sum to 1 only when every document    *)
(* with a vector is returned.                                              *)
C22_WeightsOverCorpus ==
    IsCall("attention_scores") =>
        /\ \A r \in Range(call.rows) :
              r.attention_weight = <<CallExp(Doc(r.id)), CorpusExpSum>>
        /\ \A k \in Limits :
              \A other \in attention_scores(call.query_embedding, k, call.temperature) :
                 \A r \in Range(call.rows), s \in Range(other) :
                    r.id = s.id => r.attention_weight = s.attention_weight
        /\ SumValues({<<r.id, r.attention_weight[1]>> : r \in Range(call.rows)})
              <= CorpusExpSum
        /\ (call.rows # <<>>
              /\ SumValues({<<r.id, r.attention_weight[1]>> : r \in Range(call.rows)})
                    = CorpusExpSum) =>
              Len(call.rows) = Cardinality(WithVector)

(* an attention_scores with limit 1 over two documents with a vector: the  *)
(* one returned weight is below 1                                          *)
C22_Witness ==
    /\ IsCall("attention_scores")
    /\ call.limit_count = 1
    /\ Cardinality(WithVector) = 2
    /\ Len(call.rows) = 1
    /\ call.rows[1].attention_weight[1] < call.rows[1].attention_weight[2]

(* the documents with a vector that are none of the queries of the         *)
(* cross_attention in progress and whose metadata contains its filter,     *)
(* when it has one                                                         *)
CallKeySet ==
    {e \in WithVector :
        /\ e.id \notin Range(call.query_ids)
        /\ call.key_value_filter # NullJson =>
              JsonContains(e.metadata, call.key_value_filter)}

(* the rows of the cross_attention in progress *)
CrossRows == UNION Range(call.rows)

(* C23: in cross_attention no returned key id is a query id, every         *)
(* returned key satisfies the filter when one is given, and the softmax of *)
(* each query is normalised over exactly the documents with a vector that  *)
(* are no query and pass the filter; every key of that set whose weight    *)
(* exceeds 0.01 is returned for every query that has a vector.             *)
C23_KeysExcludeQueries ==
    IsCall("cross_attention") =>
        /\ \A r \in CrossRows :
              /\ r.key_id \notin Range(call.query_ids)
              /\ r.query_id \in Range(call.query_ids)
              /\ Doc(r.key_id) \in CallKeySet
              /\ r.key_metadata = Doc(r.key_id).metadata
              /\ r.attention_weight =
                    <<PairExp(Doc(r.query_id), Doc(r.key_id), call.temperature),
                      SumValues({<<k.id, PairExp(Doc(r.query_id), k, call.temperature)>> :
                                 k \in CallKeySet})>>
        /\ \A q \in WithVector, k \in CallKeySet :
              (q.id \in Range(call.query_ids)
                 /\ AboveThreshold(
                       <<PairExp(q, k, call.temperature),
                         SumValues({<<x.id, PairExp(q, x, call.temperature)>> :
                                    x \in CallKeySet})>>)) =>
                 \E r \in CrossRows : r.query_id = q.id /\ r.key_id = k.id

(* a cross_attention of query 1 with a category filter over three          *)
(* documents with a vector: one key passes the filter and is returned with *)
(* weight 1, the other does not pass and is not returned                   *)
C23_Witness ==
    /\ IsCall("cross_attention")
    /\ call.query_ids = <<1>>
    /\ call.key_value_filter # NullJson
    /\ Cardinality(WithVector) = 3
    /\ Cardinality(CrossRows) = 1
    /\ \A r \in CrossRows : r.attention_weight[1] = r.attention_weight[2]
    /\ \E e \in WithVector :
          e.id # 1 /\ ~JsonContains(e.metadata, call.key_value_filter)

(* SUM(a.score) OVER () of the attention_weighted_retrieve in progress *)
CallScoreSum ==
    SumValues({<<e.id, Similarity(e.embedding, call.query_embedding)>> : e \in WithVector})

(* C24, as stated: when a normalisation denominator is zero (the softmax   *)
(* sum of attention_scores or of a flash_attention_search block, the sum   *)
(* of scores of attention_weighted_retrieve) the operation yields a zero   *)
(* weight or an empty result: no returned row carries a NULL weight.       *)
C24_NoNullWeight ==
    /\ IsCall("attention_scores") =>
          \A r \in Range(call.rows) : r.attention_weight # NullWeight
    /\ IsCall("flash_attention_search") =>
          \A r \in Range(call.rows) : r.attention_score # NullWeight
    /\ (IsCall("attention_weighted_retrieve")
          /\ WithVector # {} /\ CallScoreSum = 0) =>
          \A r \in Range(call.rows) : r.total_attention # NullWeight

(* what the code does when the scores sum to 0: every weight is NULL, no   *)
(* document passes the threshold, and the one row returned carries a NULL  *)
(* total_attention and no ids                                              *)
C24_ZeroSumReturnsNull ==
    /\ IsCall("attention_weighted_retrieve")
    /\ WithVector # {}
    /\ CallScoreSum = 0
    /\ Len(call.rows) = 1
    /\ call.rows[1].total_attention = NullWeight
    /\ call.rows[1].contributing_ids = <<>>

(* the documents with a vector that the call in progress does not return *)
NotReturned == {e \in WithVector : e.id \notin Range(Ids(call.rows))}

(* C25: temporal_search applies no similarity threshold: it returns        *)
(* min(limit, N) of the N documents with a vector, each once, with         *)
(* combined = (1 - time_weight) * similarity + time_weight * recency,      *)
(* where recency is 1 at age 0 and smaller for an older document; the rows *)
(* are ordered by combined score, descending, and no document left out     *)
(* scores higher than a returned one.  With time_weight = 0 the order is   *)
(* that of similarity, with time_weight = 1 it is newest first.            *)
C25_TemporalNoThreshold ==
    IsCall("temporal_search") =>
        /\ Len(call.rows) = Min(call.limit_count, Cardinality(WithVector))
        /\ \A i, j \in 1..Len(call.rows) :
              call.rows[i].id = call.rows[j].id => i = j
        /\ \A r \in Range(call.rows) :
              /\ Doc(r.id) \in WithVector
              /\ r.vector_similarity = Similarity(Doc(r.id).embedding, call.query_embedding)
              /\ r.created_at = Doc(r.id).created_at
              /\ r.recency_score[1] <= r.recency_score[2]
              /\ r.created_at = now <=> r.recency_score[1] = r.recency_score[2]
              /\ FracEq(r.combined_score,
                        <<(WeightScale - call.time_weight) * r.vector_similarity
                             * r.recency_score[2]
                             + call.time_weight * SimScale * r.recency_score[1],
                          WeightScale * SimScale * r.recency_score[2]>>)
        /\ \A r, s \in Range(call.rows) :
              r.created_at > s.created_at =>
                 ~FracLE(r.recency_score, s.recency_score)
        /\ \A i \in 1..(Len(call.rows) - 1) :
              FracLE(call.rows[i + 1].combined_score, call.rows[i].combined_score)
        /\ call.time_weight = 0 =>
              /\ \A i \in 1..(Len(call.rows) - 1) :
                    call.rows[i].vector_similarity >= call.rows[i + 1].vector_similarity
              /\ \A e \in NotReturned, r \in Range(call.rows) :
                    Similarity(e.embedding, call.query_embedding) <= r.vector_similarity
        /\ call.time_weight = WeightScale =>
              /\ \A i \in 1..(Len(call.rows) - 1) :
                    call.rows[i].created_at >= call.rows[i + 1].created_at
              /\ \A e \in NotReturned, r \in Range(call.rows) :
                    e.created_at <= r.created_at

(* a temporal_search with time_weight = 1 and limit 2 over three documents *)
(* of three ages, some time after the last insertion: the newest comes     *)
(* first although it is the least similar, and the oldest is left out      *)
C25_Witness ==
    /\ IsCall("temporal_search")
    /\ call.time_weight = WeightScale
    /\ call.limit_count = 2
    /\ Cardinality(WithVector) = 3
    /\ Len(call.rows) = 2
    /\ call.rows[1].created_at < now
    /\ call.rows[1].created_at > call.rows[2].created_at
    /\ call.rows[1].vector_similarity < call.rows[2].vector_similarity
    /\ \A e \in NotReturned :
          /\ e.created_at < call.rows[2].created_at
          /\ Similarity(e.embedding, call.query_embedding) > call.rows[2].vector_similarity

(* C26: in every row of mmr_search diversity_penalty is the maximum        *)
(* similarity of the row's document to the documents of the rows before    *)
(* it, 0 in the first row and not the document's similarity to itself,     *)
(* relevance is its similarity to the query, and mmr_score is              *)
(* lambda * relevance - (1 - lambda) * diversity_penalty of these reported *)
(* values.                                                                 *)
C26_ReportedPenaltyAndScore ==
    IsCall("mmr_search") =>
        \A i \in 1..Len(call.rows) :
           LET r == call.rows[i]
               earlier == {Doc(call.rows[j].id) : j \in 1..(i - 1)}
           IN  /\ r.relevance = Similarity(Doc(r.id).embedding, call.query_embedding)
               /\ i = 1 => r.diversity_penalty = 0
               /\ i > 1 =>
                     /\ \E s \in earlier :
                           r.diversity_penalty
                              = Similarity(Doc(r.id).embedding, s.embedding)
                     /\ \A s \in earlier :
                           Similarity(Doc(r.id).embedding, s.embedding)
                              <= r.diversity_penalty
               /\ r.mmr_score = call.lambda * r.relevance
                                   - (LambdaScale - call.lambda) * r.diversity_penalty
               /\ r.mmr_score = StepScore(Doc(r.id), {s.id : s \in earlier})

(* an mmr_search with lambda = 0.5 whose second row reports a penalty      *)
(* below 1, the similarity of a document to itself, and a score below its  *)
(* weighted relevance                                                      *)
C26_Witness ==
    /\ IsCall("mmr_search")
    /\ call.lambda = 1
    /\ Len(call.rows) >= 2
    /\ call.rows[2].diversity_penalty > 0
    /\ call.rows[2].diversity_penalty < SimScale
    /\ call.rows[2].mmr_score < call.lambda * call.rows[2].relevance

(* C27: after any sequence of performance/report calls the persisted       *)
(* history holds at most 100 entries, and they are the entries of the most *)
(* recent calls in call order: one entry per call, and beyond 100 calls    *)
(* exactly the oldest entries are gone.                                    *)
C27_HistoryLastHundred ==
    /\ Len(store.metrics) <= HistoryLimit
    /\ Len(store.metrics) = Min(report_calls, HistoryLimit)
    /\ \A i \in 1..Len(store.metrics) :
          store.metrics[i].sample = report_calls - Len(store.metrics) + i

(* after 102 reports the history holds the entries of calls 3 to 102 *)
C27_Witness ==
    /\ report_calls = HistoryLimit + 2
    /\ Len(store.metrics) = HistoryLimit
    /\ store.metrics[1].sample = 3
    /\ store.metrics[HistoryLimit].sample = HistoryLimit + 2

(* the ids of the stored benchmark records *)
BenchmarkIds(benchmarks) == {b.id : b \in benchmarks}

(* the number of suites a performance/benchmark call with this input runs: *)
(* four for 'all', one for a suite name of the table, none for another     *)
SuitesRun(suite) ==
    IF suite = "all" THEN 4
    ELSE IF suite \in {"memory", "neural", "swarm", "io"} THEN 1
    ELSE 0

(* C28, as stated: a performance/benchmark call adds exactly one new       *)
(* stored record per suite it runs and removes or overwrites no record     *)
(* stored before, and leaves the metrics history as it is;                 *)
(* performance/report leaves the stored benchmark records as they are.     *)
C28_BenchmarkOnlyAdds ==
    [][/\ (call = Idle /\ call'.op = "performance/benchmark") =>
             /\ store.benchmarks \subseteq store'.benchmarks
             /\ Cardinality(store'.benchmarks)
                   = Cardinality(store.benchmarks) + SuitesRun(call'.suite)
             /\ store'.metrics = store.metrics
       /\ (call = Idle /\ call'.op = "performance/report") =>
             store'.benchmarks = store.benchmarks]_vars

(* what store.benchmarks[id] = result does when two benchmark calls of a   *)
(* suite fall in one millisecond: the record of the first call, of 100     *)
(* iterations, is gone and the store holds the one record of the second    *)
C28_SameMillisecondOverwrites ==
    /\ IsCall("performance/benchmark")
    /\ call.suite = "memory"
    /\ call.iterations = 50
    /\ call.loaded = {[id |-> BenchId("memory", 1), name |-> "memory",
                       iterations |-> 100, createdAt |-> 1]}
    /\ store.benchmarks = {[id |-> BenchId("memory", 1), name |-> "memory",
                            iterations |-> 50, createdAt |-> 1]}

(* every migration psql was started on that did not succeed *)
FailedMigrations == {i \in 1..Len(script.outcomes) : script.outcomes[i] # "ok"}

(* C29, as stated: run-migrations.sh runs the migration files in ascending *)
(* filename order, one at a time; when a migration fails no later          *)
(* migration is started and the script exits with status 1; the line 'All  *)
(* migrations complete!' is printed only if every migration succeeded.     *)
C29_StopsAtFirstFailure ==
    /\ \A i \in 1..(Len(script.ran) - 1) : script.ran[i] < script.ran[i + 1]
    /\ \A i \in FailedMigrations :
          /\ Len(script.ran) = i
          /\ script.pc = "exited" => script.exit = 1
    /\ script.all_complete =>
          /\ FailedMigrations = {}
          /\ script.ran = script.files

(* what the script does when a statement of the first of two migrations    *)
(* fails: psql ends with 0, the second migration is run, and the script    *)
(* prints 'All migrations complete!' and exits with 0                      *)
C29_SqlErrorPassedOver ==
    /\ script.pc = "exited"
    /\ script.files = <<1, 2>>
    /\ script.outcomes = <<"sql_error", "ok">>
    /\ script.all_complete
    /\ script.exit = 0

====
